---- MODULE Spec2Model ----
(***************************************************************************)
(* Model of src/main.py: ManagedRemoteConfigService and its main block.    *)
(*                                                                         *)
(* Two processes run the program against one Remote Config backend and one *)
(* working directory.  Each process either runs the cycle of the main      *)
(* block (get_remote_config, then update_remote_config) or calls _rollback.*)
(* The steps of a process are cut where it touches shared state: the GET   *)
(* exchange, the write of the snapshot file, the read of the snapshot and  *)
(* patch files, the PUT exchange, the POST exchange.                       *)
(***************************************************************************)
EXTENDS Integers, Sequences, FiniteSets, TLC

(***************************************************************************)
(* Bounds of the model.                                                    *)
(***************************************************************************)
\* The most revisions of the template the backend holds when a run starts.
MaxInitRev == 2
\* Number of distinct minutes datetime.now() can fall in during a run.
MaxMinute == 2
\* The most members of a "parameterGroups" object given to a stand-alone
\* call of update_parameter_group.
MaxMembers == 2

Procs == {1, 2}

(***************************************************************************)
(* Python values.                                                          *)
(***************************************************************************)
\* Python's None, where a str is expected (an ETag, a file name, an option).
None == "<None>"

\* A JSON value: an object (a Python dict, kept in insertion order as a
\* sequence of <<key, value>> pairs), a string (standing for every JSON
\* value that is no object and not null) or null.  As a text (bytes) the
\* same shape is the syntax tree: an object's members in textual order,
\* where a key may occur twice; "bad" is a text that is not JSON.
JObj(members) == [t |-> "obj", s |-> "", o |-> members]
JStr(str) == [t |-> "str", s |-> str, o |-> <<>>]
JNull == [t |-> "null", s |-> "", o |-> <<>>]
BadText == [t |-> "bad", s |-> "", o |-> <<>>]

\* key in d
DictHas(d, k) == \E i \in 1..Len(d) : d[i][1] = k

\* d[key]  (the caller checks DictHas)
DictGet(d, k) == d[CHOOSE i \in 1..Len(d) : d[i][1] = k][2]

\* d[key] = value: an existing key keeps its place, a new key goes last.
DictSet(d, k, v) ==
    IF DictHas(d, k)
    THEN [i \in 1..Len(d) |-> IF d[i][1] = k THEN <<k, v>> ELSE d[i]]
    ELSE Append(d, <<k, v>>)

DictKeys(d) == {d[i][1] : i \in 1..Len(d)}

\* json.loads / json.load of a text that parses (IsJson below; the callers
\* raise JSONDecodeError otherwise).  A repeated key of an object keeps its
\* last value, at the place of its first occurrence.
RECURSIVE json_loads(_)
RECURSIVE LoadMembers(_, _, _)
LoadMembers(members, i, acc) ==
    IF i > Len(members) THEN acc
    ELSE LoadMembers(members, i + 1,
                     DictSet(acc, members[i][1], json_loads(members[i][2])))

json_loads(text) ==
    IF text.t = "obj" THEN JObj(LoadMembers(text.o, 1, <<>>)) ELSE text

\* json.dumps: the members of a dict in insertion order.
json_dumps(value) == value

\* Whether a text parses.
RECURSIVE IsJson(_)
IsJson(text) ==
    /\ text.t # "bad"
    /\ \A i \in 1..Len(text.o) : IsJson(text.o[i][2])

(***************************************************************************)
(* update_parameter_group (src/main.py 57-84).                             *)
(***************************************************************************)
\* The result of a call: the exception raised ("" when it returned), the
\* value returned, and the state of the dict passed in as
\* remote_config_current once the call has ended, which the call mutates.
Result(exc, ret, cur) == [exc |-> exc, ret |-> ret, cur |-> cur]

\* A file system: a function from file names to a text, or NoFile.
NoFile == [t |-> "nofile", s |-> "", o |-> <<>>]

\* The content open(name) finds, NoFile when the directory has no such file.
FileOf(dir, name) == IF name \in DOMAIN dir THEN dir[name] ELSE NoFile

\* A selection of the patch file that falls back to the enabled file for an
\* option that is neither 'disable' nor 'enable'.
ConfigFileNameDefaulting(scenario, banner_option) ==
    IF banner_option = "disable" THEN scenario \o "_disabled.json"
    ELSE scenario \o "_enabled.json"

\* Lines 69-75: the patch file's name, None for the ValueError.
ConfigFileName(scenario, banner_option) ==
    IF banner_option = "disable" THEN scenario \o "_disabled.json"
    ELSE IF banner_option = "enable" THEN scenario \o "_enabled.json"
    ELSE None

\* A patch step that replaces the whole "parameterGroups" mapping by the one
\* group instead of setting the group in it.
AssignGroupReplacingAll(cur, group, group_data) ==
    IF cur.t # "obj" THEN [exc |-> "TypeError", cur |-> cur]
    ELSE IF ~DictHas(cur.o, "parameterGroups")
    THEN [exc |-> "KeyError", cur |-> cur]
    ELSE [exc |-> "",
          cur |-> JObj(DictSet(cur.o, "parameterGroups",
                               JObj(<< <<group, group_data>> >>)))]

\* One execution of line 82 on the dict `cur`: the exception it raises, or ""
\* and the dict after the assignment.
AssignGroup(cur, group, group_data) ==
    IF cur.t # "obj" THEN [exc |-> "TypeError", cur |-> cur]
    ELSE IF ~DictHas(cur.o, "parameterGroups")
    THEN [exc |-> "KeyError", cur |-> cur]
    ELSE LET pg == DictGet(cur.o, "parameterGroups") IN
         IF pg.t # "obj" THEN [exc |-> "TypeError", cur |-> cur]
         ELSE [exc |-> "",
               cur |-> JObj(DictSet(cur.o, "parameterGroups",
                                    JObj(DictSet(pg.o, group, group_data))))]

\* Lines 80-84: the loop over the patch file's groups, from item i on.
RECURSIVE PatchLoop(_, _, _)
PatchLoop(cur, items, i) ==
    IF i > Len(items) THEN Result("", cur, cur)
    ELSE LET a == AssignGroup(cur, items[i][1], items[i][2]) IN
         IF a.exc # "" THEN Result(a.exc, None, a.cur)
         ELSE PatchLoop(a.cur, items, i + 1)

update_parameter_group(remote_config_current, scenario, banner_option, files) ==
    LET config_file == ConfigFileName(scenario, banner_option) IN
    IF banner_option = None \/ config_file = None
    THEN Result("ValueError", None, remote_config_current)
    ELSE IF FileOf(files, config_file) = NoFile
    THEN Result("FileNotFoundError", None, remote_config_current)
    ELSE IF ~IsJson(FileOf(files, config_file))
    THEN Result("JSONDecodeError", None, remote_config_current)
    ELSE LET data == json_loads(FileOf(files, config_file)) IN
         IF data.t # "obj"
         THEN Result("AttributeError", None, remote_config_current)
         ELSE LET groups == IF DictHas(data.o, "parameterGroups")
                            THEN DictGet(data.o, "parameterGroups")
                            ELSE JObj(<<>>) IN
              IF groups.t # "obj"
              THEN Result("AttributeError", None, remote_config_current)
              ELSE PatchLoop(remote_config_current, groups.o, 1)

(***************************************************************************)
(* The environment: the backend, the working directory, the inputs.        *)
(***************************************************************************)
\* The version token of revision n of the remote template.
ETagOf(n) == "etag-" \o ToString(n)

\* The name _save_remote_config gives the snapshot written in minute m
\* (line 93-94; the minute stands for the '%Y%m%d%H%M' timestamp).
SnapshotName(m) == "config_" \o ToString(m) \o ".json"

TemplatePlain ==
    JObj(<< <<"parameters", JStr("old")>> >>)

TemplateGroups ==
    JObj(<< <<"parameters", JStr("old")>>,
            <<"parameterGroups",
              JObj(<< <<"banner", JStr("v0")>>, <<"other", JStr("v0")>> >>)>> >>)

InitTemplates == {TemplatePlain, TemplateGroups}

\* The revisions the backend holds when a run starts: each differs from the
\* one before it.
InitHistories ==
    {h \in UNION {[1..n -> InitTemplates] : n \in 1..MaxInitRev} :
       \A i \in 1..(Len(h) - 1) : h[i] # h[i + 1]}

\* The patch files of the working directory.
PatchFiles ==
    [n \in {"scenario1_enabled.json", "scenario1_disabled.json",
            "scenario2_enabled.json", "scenario2_disabled.json"} |->
       CASE n = "scenario1_enabled.json" ->
              JObj(<< <<"parameterGroups",
                        JObj(<< <<"banner", JStr("on")>> >>)>> >>)
         [] n = "scenario1_disabled.json" ->
              JObj(<< <<"parameterGroups",
                        JObj(<< <<"banner", JStr("off")>>,
                                <<"extra", JStr("off")>> >>)>> >>)
         [] n = "scenario2_enabled.json" -> JObj(<< <<"version", JStr("7")>> >>)
         [] OTHER -> NoFile]

Scenarios == {"scenario1", "scenario2"}
BannerOptions == {None, "enable", "disable", "neither"}
Minutes == 1..MaxMinute
FileNames == DOMAIN PatchFiles \cup {SnapshotName(m) : m \in Minutes}


VARIABLES
    remote,       \* backend: the template of every revision, the last is current
    accepted,     \* backend: the writes it accepted, in order
    files,        \* the working directory
    clock,        \* the current minute
    pc,           \* per process: "start", "got", "update", "put", "done"
    resp,         \* per process: the GET response
    etag,         \* per process: main's etag
    config_file,  \* per process: main's config_file
    snapshot,     \* per process: what _save_remote_config wrote
    args,         \* per process: scenario and banner_option of the update
    base,         \* per process: the template loaded from the snapshot file
    data,         \* per process: the patched template
    sent,         \* per process: the HTTP requests issued, in order
    log,          \* per process: the messages logged or printed, in order
    wresp,        \* per process: the response to its PUT or POST
    outcome,      \* per process: how it ended (exc: "" while running,
                  \* "completed" or "returned" at a normal end, else the
                  \* uncaught exception; at: the function that raised it)
    call,         \* a call of update_parameter_group on its own: the inputs
    result        \* ... and its result

vars == <<remote, accepted, files, clock, pc, resp, etag, config_file,
          snapshot, args, base, data, sent, log, wresp, outcome, call, result>>

\* The variables of the stand-alone call, which the program leaves alone.
callVars == <<call, result>>

NoResp == [status |-> 0, etag |-> None, content |-> BadText]
NoArgs == [scenario |-> None, banner_option |-> None]
NoSnapshot == [name |-> None, content |-> NoFile]
NoWriteResp == [status |-> 0, etag |-> None]
Running == [exc |-> "", at |-> ""]
NoCall == [template |-> JNull, scenario |-> None, banner_option |-> None]
NoResult == Result("<pending>", None, JNull)

Request(method, url, ifmatch, body) ==
    [method |-> method, url |-> url, ifmatch |-> ifmatch, body |-> body]

Init ==
    /\ remote \in InitHistories
    /\ accepted = <<>>
    /\ files = [n \in FileNames |->
                  IF n \in DOMAIN PatchFiles THEN PatchFiles[n] ELSE NoFile]
    /\ clock = 1
    /\ pc = [p \in Procs |-> "start"]
    /\ resp = [p \in Procs |-> NoResp]
    /\ etag = [p \in Procs |-> None]
    /\ config_file = [p \in Procs |-> None]
    /\ snapshot = [p \in Procs |-> NoSnapshot]
    /\ args = [p \in Procs |-> NoArgs]
    /\ base = [p \in Procs |-> JNull]
    /\ data = [p \in Procs |-> JNull]
    /\ sent = [p \in Procs |-> <<>>]
    /\ log = [p \in Procs |-> <<>>]
    /\ wresp = [p \in Procs |-> NoWriteResp]
    /\ outcome = [p \in Procs |-> Running]
    /\ call = NoCall
    /\ result = NoResult

\* An uncaught exception ends the process.
Crash(p, exc, at) ==
    /\ pc' = [pc EXCEPT ![p] = "done"]
    /\ outcome' = [outcome EXCEPT ![p] = [exc |-> exc, at |-> at]]

\* The process reaches the end of the main block.
Finish(p, how) ==
    /\ pc' = [pc EXCEPT ![p] = "done"]
    /\ outcome' = [outcome EXCEPT ![p] = [exc |-> how, at |-> "main"]]

\* The minute passes.
Tick ==
    /\ clock < MaxMinute
    /\ clock' = clock + 1
    /\ UNCHANGED <<remote, accepted, files, pc, resp, etag, config_file,
                   snapshot, args, base, data, sent, log, wresp, outcome>>
    /\ UNCHANGED callVars

(***************************************************************************)
(* The backend (ConfigBackend of the specification, section 6).            *)
(***************************************************************************)
CurrentRev == Len(remote)
CurrentETag == ETagOf(CurrentRev)

\* The backend's answers to a GET: any status, the ETag header absent (None),
\* empty or the current version token, a body that is the current template
\* or no JSON at all.
GetResponses ==
    [status : {200, 500},
     etag : {None, "", CurrentETag},
     content : {json_dumps(remote[CurrentRev]), BadText}]

\* Whether the backend's precondition lets a write with this If-Match pass.
PreconditionHolds(ifmatch) == ifmatch \in {CurrentETag, "*"}

\* The ETag header of a 200 answer to a write: the new token, or absent.
WriteETags == {ETagOf(CurrentRev + 1), None}

(***************************************************************************)
(* get_remote_config (src/main.py 104-129) and line 179 of the main block. *)
(***************************************************************************)
\* Lines 110-113: the access token, then the GET and its response.
GetRequest(p) ==
    /\ pc[p] = "start"
    /\ \/ /\ Crash(p, "CredentialError", "get_remote_config")
          /\ UNCHANGED <<resp, sent>>
       \/ /\ sent' = [sent EXCEPT ![p] =
                        Append(@, Request("GET", "remoteConfig", None, JNull))]
          /\ \/ /\ Crash(p, "ConnectionError", "get_remote_config")
                /\ UNCHANGED resp
             \/ \E r \in GetResponses :
                  /\ resp' = [resp EXCEPT ![p] = r]
                  /\ pc' = [pc EXCEPT ![p] = "got"]
                  /\ UNCHANGED outcome
    /\ UNCHANGED <<remote, accepted, files, clock, etag, config_file,
                   snapshot, args, base, data, log, wresp>>
    /\ UNCHANGED callVars

\* A save that does not look at the status.
ShouldSaveAlways(status) == TRUE

\* Line 124: whether the template is saved and returned.
ShouldSave(status) == status = 200

\* Lines 116-129, _save_remote_config (86-102) and the unpacking of line 179.
GetFinish(p) ==
    /\ pc[p] = "got"
    /\ IF ~IsJson(resp[p].content)
       THEN /\ Crash(p, "JSONDecodeError", "get_remote_config")
            /\ UNCHANGED <<files, etag, config_file, snapshot, log>>
       ELSE IF resp[p].etag = None
       THEN /\ log' = [log EXCEPT ![p] =
                         Append(@, <<"ETag not found in response headers.", 0>>)]
            /\ etag' = [etag EXCEPT ![p] = None]
            /\ config_file' = [config_file EXCEPT ![p] = None]
            /\ pc' = [pc EXCEPT ![p] = "update"]
            /\ UNCHANGED <<files, snapshot, outcome>>
       ELSE IF ShouldSave(resp[p].status)
       THEN LET file_response == json_dumps(json_loads(resp[p].content))
                remote_file_name == SnapshotName(clock) IN
            /\ files' = [files EXCEPT ![remote_file_name] = file_response]
            /\ snapshot' = [snapshot EXCEPT ![p] =
                              [name |-> remote_file_name,
                               content |-> file_response]]
            /\ log' = [log EXCEPT ![p] =
                         Append(@, <<"Retrieved template has been written", 0>>)]
            /\ etag' = [etag EXCEPT ![p] = resp[p].etag]
            /\ config_file' = [config_file EXCEPT ![p] = remote_file_name]
            /\ pc' = [pc EXCEPT ![p] = "update"]
            /\ UNCHANGED outcome
       ELSE /\ log' = [log EXCEPT ![p] =
                         Append(@, <<"Error retrieving template", resp[p].status>>)]
            /\ Crash(p, "TypeError", "main")
            /\ UNCHANGED <<files, etag, config_file, snapshot>>
    /\ UNCHANGED <<remote, accepted, clock, resp, args, base, data, sent,
                   wresp>>
    /\ UNCHANGED callVars

(***************************************************************************)
(* update_remote_config (src/main.py 131-166) and line 184.                *)
(***************************************************************************)
\* Lines 139-155: the access token, the snapshot file, the patch.
UpdatePatch(p) ==
    /\ pc[p] = "update"
    /\ \/ /\ Crash(p, "CredentialError", "update_remote_config")
          /\ UNCHANGED <<args, base, data, log>>
       \/ \E scenario \in Scenarios, banner_option \in BannerOptions :
            /\ args' = [args EXCEPT ![p] = [scenario |-> scenario,
                                            banner_option |-> banner_option]]
            /\ IF config_file[p] = None
               THEN /\ Crash(p, "TypeError", "update_remote_config")
                    /\ UNCHANGED <<base, data, log>>
               ELSE IF FileOf(files, config_file[p]) = NoFile
               THEN /\ Crash(p, "FileNotFoundError", "update_remote_config")
                    /\ UNCHANGED <<base, data, log>>
               ELSE IF ~IsJson(FileOf(files, config_file[p]))
               THEN /\ Crash(p, "JSONDecodeError", "update_remote_config")
                    /\ UNCHANGED <<base, data, log>>
               ELSE LET remote_config_file ==
                            json_loads(FileOf(files, config_file[p]))
                        r == update_parameter_group(remote_config_file,
                                 scenario, banner_option, files) IN
                    /\ base' = [base EXCEPT ![p] = remote_config_file]
                    /\ IF r.exc # ""
                       THEN /\ Crash(p, r.exc, "update_parameter_group")
                            /\ UNCHANGED <<data, log>>
                       ELSE IF r.ret = JNull
                       THEN /\ log' = [log EXCEPT ![p] =
                                         Append(@, <<"No data found", 0>>)]
                            /\ Crash(p, "ValueError", "update_remote_config")
                            /\ UNCHANGED data
                       ELSE /\ data' = [data EXCEPT ![p] = r.ret]
                            /\ pc' = [pc EXCEPT ![p] = "put"]
                            /\ UNCHANGED <<log, outcome>>
    /\ UNCHANGED <<remote, accepted, files, clock, resp, etag, config_file,
                   snapshot, sent, wresp>>
    /\ UNCHANGED callVars

\* A header that forces the write whatever the revision.
IfMatchHeaderForce(p) == "*"

\* A header that carries the backend's token of the moment of the write
\* instead of the token the cycle fetched.
IfMatchHeaderLatest(p) == CurrentETag

\* The If-Match header of line 142.
IfMatchHeader(p) == etag[p]

\* Lines 160-166 and line 184: what the process makes of the PUT's answer.
PutFinish(p, status, etag_header) ==
    /\ wresp' = [wresp EXCEPT ![p] = [status |-> status, etag |-> etag_header]]
    /\ IF status = 200
       THEN IF etag_header = None
            THEN /\ log' = [log EXCEPT ![p] =
                              Append(@, <<"Updated template successfully", 0>>)]
                 /\ Crash(p, "KeyError", "update_remote_config")
            ELSE /\ log' = [log EXCEPT ![p] =
                              @ \o << <<"Updated template successfully", 0>>,
                                      <<"ETag from server", 0>>,
                                      <<"Remote config update process completed.", 0>> >>]
                 /\ Finish(p, "completed")
       ELSE /\ log' = [log EXCEPT ![p] =
                         @ \o << <<"Error updating template", status>>,
                                 <<"Remote config update process completed.", 0>> >>]
            /\ Finish(p, "completed")

\* Lines 157-166: the PUT, the backend's handling of it, its answer.
UpdatePut(p) ==
    /\ pc[p] = "put"
    /\ LET body == json_dumps(data[p])
           ifmatch == IfMatchHeader(p) IN
       /\ sent' = [sent EXCEPT ![p] =
                     Append(@, Request("PUT", "remoteConfig", ifmatch, body))]
       /\ \/ /\ Crash(p, "ConnectionError", "update_remote_config")
             /\ UNCHANGED <<remote, accepted, log, wresp>>
          \/ /\ PutFinish(p, 500, None)
             /\ UNCHANGED <<remote, accepted>>
          \/ /\ ~PreconditionHolds(ifmatch)
             /\ \E status \in {412, 409} : PutFinish(p, status, None)
             /\ UNCHANGED <<remote, accepted>>
          \/ /\ PreconditionHolds(ifmatch)
             /\ remote' = Append(remote, json_loads(body))
             /\ accepted' = Append(accepted,
                                   [by |-> p, method |-> "PUT",
                                    ifmatch |-> ifmatch, over |-> CurrentRev,
                                    body |-> body])
             /\ \E h \in WriteETags : PutFinish(p, 200, h)
    /\ UNCHANGED <<files, clock, resp, etag, config_file, snapshot, args,
                   base, data>>
    /\ UNCHANGED callVars

(***************************************************************************)
(* _rollback (src/main.py 22-44), called as in lines 174-177.              *)
(***************************************************************************)
\* The version numbers a caller may name; the last one names no revision
\* the backend holds when the run starts.
Versions == {ToString(n) : n \in 1..(MaxInitRev + 1)}

\* The revision a version number names, 0 when the backend holds none such.
RevisionOf(version) ==
    IF \E n \in 1..CurrentRev : ToString(n) = version
    THEN CHOOSE n \in 1..CurrentRev : ToString(n) = version
    ELSE 0

\* A body that names the version under another key.
RollbackBodyWrongKey(version) == JObj(<< <<"version", JStr(version)>> >>)

\* Line 31-33: the body of the POST.
RollbackBody(version) == JObj(<< <<"versionNumber", JStr(version)>> >>)

\* Lines 38-44: what the process makes of the POST's answer.
RollbackFinish(p, version, status, etag_header) ==
    /\ wresp' = [wresp EXCEPT ![p] = [status |-> status, etag |-> etag_header]]
    /\ IF status = 200
       THEN IF etag_header = None
            THEN /\ log' = [log EXCEPT ![p] =
                              @ \o << <<"Rolled back to version: " \o version, 0>>,
                                      <<"resp.text", 0>> >>]
                 /\ Crash(p, "KeyError", "_rollback")
            ELSE /\ log' = [log EXCEPT ![p] =
                              @ \o << <<"Rolled back to version: " \o version, 0>>,
                                      <<"resp.text", 0>>,
                                      <<"ETag from server", 0>> >>]
                 /\ Finish(p, "returned")
       ELSE /\ log' = [log EXCEPT ![p] =
                         @ \o << <<"Request to roll back to version "
                                     \o version \o " failed.", 0>>,
                                 <<"resp.text", 0>> >>]
            /\ Finish(p, "returned")

Rollback(p) ==
    /\ pc[p] = "start"
    /\ \/ /\ Crash(p, "CredentialError", "_rollback")
          /\ UNCHANGED <<remote, accepted, sent, log, wresp>>
       \/ \E version \in Versions :
            /\ sent' = [sent EXCEPT ![p] =
                          Append(@, Request("POST", "remoteConfig:rollback",
                                            None, RollbackBody(version)))]
            /\ \/ /\ Crash(p, "ConnectionError", "_rollback")
                  /\ UNCHANGED <<remote, accepted, log, wresp>>
               \/ /\ RollbackFinish(p, version, 500, None)
                  /\ UNCHANGED <<remote, accepted>>
               \/ /\ RevisionOf(version) = 0
                  /\ RollbackFinish(p, version, 404, None)
                  /\ UNCHANGED <<remote, accepted>>
               \/ /\ RevisionOf(version) # 0
                  /\ remote' = Append(remote, remote[RevisionOf(version)])
                  /\ accepted' = Append(accepted,
                                        [by |-> p, method |-> "POST",
                                         ifmatch |-> None, over |-> CurrentRev,
                                         body |-> RollbackBody(version)])
                  /\ \E h \in WriteETags : RollbackFinish(p, version, 200, h)
    /\ UNCHANGED <<files, clock, resp, etag, config_file, snapshot, args,
                   base, data>>
    /\ UNCHANGED callVars

(***************************************************************************)
(* The program.                                                            *)
(***************************************************************************)
Next ==
    \/ Tick
    \/ \E p \in Procs : GetRequest(p)
    \/ \E p \in Procs : GetFinish(p)
    \/ \E p \in Procs : UpdatePatch(p)
    \/ \E p \in Procs : UpdatePut(p)
    \/ \E p \in Procs : Rollback(p)

Spec == Init /\ [][Next]_vars

(***************************************************************************)
(* update_parameter_group called on its own, on bounded inputs.            *)
(***************************************************************************)
GroupValues == {JStr("a"), JStr("b")}
TemplateGroupNames == {"banner", "other"}
PatchGroupNames == {"banner", "extra"}

\* The member lists of at most MaxMembers members; a text may repeat a key.
MemberLists(names) ==
    UNION {[1..n -> {<<k, v>> : k \in names, v \in GroupValues}] :
             n \in 0..MaxMembers}

\* The dicts among them: no key twice.
Dicts(names) ==
    {d \in MemberLists(names) :
       \A i \in 1..Len(d), j \in 1..Len(d) : d[i][1] = d[j][1] => i = j}

\* Templates: no dict at all, or a dict with or without "parameterGroups"
\* (a mapping or not), with or without a key before it and a key after it.
TemplateInputs ==
    {JNull, JStr("x")} \cup
    {JObj(pre \o pg \o post) :
       pre \in {<<>>, << <<"parameters", JStr("old")>> >>},
       pg \in {<<>>, << <<"parameterGroups", JStr("x")>> >>}
              \cup {<< <<"parameterGroups", JObj(d)>> >> :
                      d \in Dicts(TemplateGroupNames)},
       post \in {<<>>, << <<"version", JStr("1")>> >>}}

\* Patch files: absent, not JSON, JSON but no object, an object without
\* "parameterGroups", or with one (a mapping or not).
PatchTexts ==
    {NoFile, BadText, JStr("x"), JObj(<<>>),
     JObj(<< <<"parameterGroups", JStr("x")>> >>)}
    \cup {JObj(<< <<"parameterGroups", JObj(m)>> >>) :
            m \in MemberLists(PatchGroupNames)}

InitPatch ==
    /\ remote = <<TemplatePlain>>
    /\ accepted = <<>>
    /\ \E text \in PatchTexts :
         files = [n \in FileNames |->
                    IF n = "scenario1_enabled.json" THEN text
                    ELSE IF n \in DOMAIN PatchFiles THEN PatchFiles[n]
                    ELSE NoFile]
    /\ clock = 1
    /\ pc = [p \in Procs |-> "start"]
    /\ resp = [p \in Procs |-> NoResp]
    /\ etag = [p \in Procs |-> None]
    /\ config_file = [p \in Procs |-> None]
    /\ snapshot = [p \in Procs |-> NoSnapshot]
    /\ args = [p \in Procs |-> NoArgs]
    /\ base = [p \in Procs |-> JNull]
    /\ data = [p \in Procs |-> JNull]
    /\ sent = [p \in Procs |-> <<>>]
    /\ log = [p \in Procs |-> <<>>]
    /\ wresp = [p \in Procs |-> NoWriteResp]
    /\ outcome = [p \in Procs |-> Running]
    /\ call \in [template : TemplateInputs, scenario : {"scenario1"},
                 banner_option : BannerOptions]
    /\ result = NoResult

PatchCall ==
    /\ result = NoResult
    /\ result' = update_parameter_group(call.template, call.scenario,
                                        call.banner_option, files)
    /\ UNCHANGED <<remote, accepted, files, clock, pc, resp, etag,
                   config_file, snapshot, args, base, data, sent, log, wresp,
                   outcome, call>>

NextPatch == PatchCall

SpecPatch == InitPatch /\ [][NextPatch]_vars

(***************************************************************************)
(* The claims.                                                             *)
(***************************************************************************)
\* The positions of the PUTs among the requests of process p.
Puts(p) == {i \in DOMAIN sent[p] : sent[p][i].method = "PUT"}
Posts(p) == {i \in DOMAIN sent[p] : sent[p][i].method = "POST"}
Logged(p, message) == \E i \in DOMAIN log[p] : log[p][i][1] = message
ConflictStatus == {412, 409}
NormalEnd == {"completed", "returned"}

\* C1: a PUT is never issued with an empty or missing If-Match value,
\* whatever the backend answered to the GET.
C1_PutIfMatchNonEmpty ==
    \A p \in Procs : \A i \in Puts(p) : sent[p][i].ifmatch \notin {"", None}

\* C2: when the GET response carries no ETag header (and the credential
\* provider works), the cycle ends as a failure of the fetch, in
\* get_remote_config, not as an error of a later step, and sends no PUT.
C2_MissingETagIsFetchError ==
    \A p \in Procs :
       (/\ resp[p].status # 0
        /\ resp[p].etag = None
        /\ pc[p] = "done"
        /\ outcome[p].exc # "CredentialError")
       => /\ outcome[p].at = "get_remote_config"
          /\ outcome[p].exc \notin NormalEnd
          /\ Puts(p) = {}

\* C3: a cycle sends at most one PUT; when the backend answers it (a PUT
\* that carried a version token, now stale) with a conflict status (412/409)
\* the cycle ends in an error, the backend has taken no write of that cycle,
\* and the cycle's outcome differs from the outcome of every cycle whose PUT
\* got another answer.
C3_ConflictIsDistinct ==
    \A p \in Procs :
       /\ Cardinality(Puts(p)) <= 1
       /\ (/\ pc[p] = "done"
           /\ Puts(p) # {}
           /\ etag[p] # ""
           /\ wresp[p].status \in ConflictStatus)
          => /\ outcome[p].exc \notin NormalEnd
             /\ \A i \in DOMAIN accepted : accepted[i].by # p
             /\ \A q \in Procs :
                  (/\ pc[q] = "done"
                   /\ Puts(q) # {}
                   /\ wresp[q].status \notin ConflictStatus \cup {0})
                  => outcome[q] # outcome[p]

\* C4: no lost update.  Every PUT the backend accepted carried the version
\* token of the revision it replaced, that revision is the one the cycle's
\* GET returned, and the template the cycle patched is that revision's.
C4_NoLostUpdate ==
    \A i \in DOMAIN accepted :
       accepted[i].method = "PUT" =>
          LET a == accepted[i] IN
          /\ a.ifmatch = ETagOf(a.over)
          /\ resp[a.by].etag = ETagOf(a.over)
          /\ resp[a.by].status = 200
          /\ base[a.by] = remote[a.over]

\* C4's case: two cycles fetched the same revision, one wrote, the other's
\* PUT, now stale, was rejected.
C4_Witness ==
    \E p \in Procs, q \in Procs, i \in DOMAIN accepted :
       /\ p # q
       /\ accepted[i].method = "PUT"
       /\ accepted[i].by = p
       /\ Puts(q) # {}
       /\ wresp[q].status \in ConflictStatus
       /\ resp[q].etag = ETagOf(accepted[i].over)

\* C5: fetch, then patch, then write.  The patch step runs only once the
\* GET has completed, a PUT is sent only once the patch has completed, after
\* the GET, with the patched template as its body and the ETag of the
\* cycle's own GET as its If-Match.
C5_FetchPatchWriteOrder ==
    \A p \in Procs :
       /\ (args[p] # NoArgs \/ base[p] # JNull \/ data[p] # JNull)
          => /\ resp[p].status # 0
             /\ pc[p] \notin {"start", "got"}
             /\ sent[p][1].method = "GET"
       /\ \A i \in Puts(p) :
             /\ data[p] # JNull
             /\ \E j \in 1..(i - 1) : sent[p][j].method = "GET"
             /\ sent[p][i].body = json_dumps(data[p])
             /\ sent[p][i].ifmatch = resp[p].etag

\* C5's case: a cycle has sent its PUT, after another process's write.
C5_Witness ==
    \E p \in Procs :
       /\ Puts(p) # {}
       /\ resp[p].etag = ETagOf(1)
       /\ CurrentRev > 1
       /\ \E i \in DOMAIN accepted : accepted[i].by # p /\ accepted[i].over = 1

\* C6: with banner_option None or any value but 'enable' and 'disable' the
\* cycle sends no PUT and does not complete, and once the patch step is
\* reached it raises ValueError, in update_parameter_group.
C6_InvalidBannerRaisesBeforeWrite ==
    \A p \in Procs :
       (args[p] # NoArgs /\ args[p].banner_option \notin {"enable", "disable"})
       => /\ Puts(p) = {}
          /\ pc[p] = "done"
          /\ outcome[p].exc \notin NormalEnd
          /\ base[p] # JNull
             => outcome[p] = [exc |-> "ValueError",
                              at |-> "update_parameter_group"]

\* C6's case: the patch step was reached with an option that is neither.
C6_Witness ==
    \E p \in Procs, q \in Procs :
       /\ args[p].banner_option = "neither"
       /\ base[p] # JNull
       /\ outcome[p].exc = "ValueError"
       /\ args[q].scenario # None
       /\ args[q].banner_option = None
       /\ base[q] # JNull

\* C7: a cycle whose GET or PUT was answered with a status other than 200
\* never reaches normal completion (stated for the cycles whose GET
\* returned a version token that is not empty).
C7_FailuresSurface ==
    \A p \in Procs :
       (/\ pc[p] = "done"
        /\ resp[p].etag \notin {None, ""}
        /\ \/ resp[p].status \notin {0, 200}
           \/ Puts(p) # {} /\ wresp[p].status \notin {0, 200})
       => outcome[p].exc \notin NormalEnd

\* Whether a template has a "parameterGroups" mapping.
HasGroups(template) ==
    /\ template.t = "obj"
    /\ DictHas(template.o, "parameterGroups")
    /\ DictGet(template.o, "parameterGroups").t = "obj"

\* The patch file the option of the stand-alone call selects.
CalledPatchFile ==
    FileOf(files, IF call.banner_option = "enable"
                  THEN "scenario1_enabled.json"
                  ELSE "scenario1_disabled.json")

\* The members of the patch file's "parameterGroups", as written in it.
PatchMembers(text) ==
    IF HasGroups(text) THEN DictGet(text.o, "parameterGroups").o ELSE <<>>

\* The value the patch file gives a group: its last member of that name.
PatchValue(members, group) ==
    members[CHOOSE i \in 1..Len(members) :
              /\ members[i][1] = group
              /\ \A j \in (i + 1)..Len(members) : members[j][1] # group][2]

\* C8: on a template with a "parameterGroups" mapping,
\* update_parameter_group either raises and leaves the template as it was,
\* or returns the template with each group the patch file names set to the
\* patch file's value, every other group and every other top-level key as
\* before.
C8_PatchChangesOnlyNamedGroups ==
    (result # NoResult /\ HasGroups(call.template)) =>
       LET before == call.template
           members == PatchMembers(CalledPatchFile)
           named == DictKeys(members) IN
       IF result.exc # ""
       THEN result.cur = before /\ result.ret = None
       ELSE /\ result.ret = result.cur
            /\ call.banner_option \in {"enable", "disable"}
            /\ result.ret.t = "obj"
            /\ Len(result.ret.o) = Len(before.o)
            /\ \A i \in 1..Len(before.o) :
                  /\ result.ret.o[i][1] = before.o[i][1]
                  /\ before.o[i][1] # "parameterGroups"
                     => result.ret.o[i] = before.o[i]
            /\ HasGroups(result.ret)
            /\ LET old == DictGet(before.o, "parameterGroups").o
                   new == DictGet(result.ret.o, "parameterGroups").o IN
               /\ \A g \in named :
                     DictHas(new, g) /\ DictGet(new, g) = PatchValue(members, g)
               /\ \A g \in (DictKeys(old) \cup DictKeys(new)) \ named :
                     /\ DictHas(old, g)
                     /\ DictHas(new, g)
                     /\ DictGet(new, g) = DictGet(old, g)

\* C8's case: a patch that changes a group, adds one and leaves one alone,
\* in a template with other top-level keys.
C8_Witness ==
    /\ result # NoResult
    /\ result.exc = ""
    /\ HasGroups(call.template)
    /\ Len(call.template.o) = 3
    /\ LET old == DictGet(call.template.o, "parameterGroups").o
           new == DictGet(result.ret.o, "parameterGroups").o IN
       /\ DictHas(old, "other")
       /\ DictHas(old, "banner")
       /\ DictGet(new, "banner") # DictGet(old, "banner")
       /\ DictHas(new, "extra")

\* C9: a process that rolls back sends one POST to the rollback endpoint
\* and nothing else, with the body {"versionNumber": version} for the
\* version it reports on; it prints the success message exactly when the
\* status is 200 and the failure message exactly when it is not; it writes
\* no snapshot file.
C9_RollbackPostsOnceAndReports ==
    /\ \A p \in Procs :
          Posts(p) # {} =>
             /\ Len(sent[p]) = 1
             /\ sent[p][1].url = "remoteConfig:rollback"
             /\ sent[p][1].ifmatch = None
             /\ \E v \in Versions :
                   /\ sent[p][1].body = JObj(<< <<"versionNumber", JStr(v)>> >>)
                   /\ wresp[p].status # 0 =>
                        /\ wresp[p].status = 200
                           <=> Logged(p, "Rolled back to version: " \o v)
                        /\ wresp[p].status # 200
                           <=> Logged(p, "Request to roll back to version "
                                            \o v \o " failed.")
             /\ snapshot[p] = NoSnapshot
             /\ config_file[p] = None
    /\ (\A p \in Procs : Posts(p) # {} \/ pc[p] = "start")
       => \A m \in Minutes : files[SnapshotName(m)] = NoFile

\* C9's case: one rollback was answered 200, another was refused.
C9_Witness ==
    \E p \in Procs, q \in Procs :
       /\ Posts(p) # {}
       /\ wresp[p].status = 200
       /\ outcome[p].exc = "returned"
       /\ Posts(q) # {}
       /\ wresp[q].status = 404

\* The state part of C10.
C10_State ==
    \A p \in Procs :
       /\ snapshot[p] # NoSnapshot
          => /\ resp[p].status = 200
             /\ resp[p].etag # None
             /\ IsJson(resp[p].content)
             /\ snapshot[p].content = json_dumps(json_loads(resp[p].content))
             /\ config_file[p] = snapshot[p].name
       /\ (args[p] # NoArgs /\ snapshot[p] = NoSnapshot) => base[p] = JNull
       /\ base[p] # JNull
          => /\ snapshot[p] # NoSnapshot
             /\ json_dumps(base[p]) = snapshot[p].content
       /\ \A i \in Puts(p) :
             /\ snapshot[p] # NoSnapshot
             /\ LET r == update_parameter_group(
                            json_loads(snapshot[p].content), args[p].scenario,
                            args[p].banner_option, files) IN
                r.exc = "" /\ sent[p][i].body = json_dumps(r.ret)

\* The step part of C10: the patch step and the write step of a process
\* leave every file as it is.
C10_Step ==
    (\E p \in Procs : pc[p] \in {"update", "put"} /\ pc'[p] # pc[p])
    => files' = files

\* C10: the snapshot is written only on a GET answered 200 with an ETag,
\* before the patch step; a PUT is sent only by a cycle that wrote a
\* snapshot, its body is that snapshot's content with the patch applied, and
\* neither the patch nor the write changes a file.
C10_SnapshotOnlyOnSuccessfulFetch == []C10_State /\ [][C10_Step]_vars

\* C10's case: a cycle wrote its snapshot and sent a PUT whose body differs
\* from it, while the file still holds what was fetched.
C10_Witness ==
    \E p \in Procs :
       /\ snapshot[p] # NoSnapshot
       /\ Puts(p) # {}
       /\ sent[p][2].body # snapshot[p].content
       /\ files[snapshot[p].name] = snapshot[p].content

====
